---------------------------- MODULE Spec2Model ----------------------------
(***************************************************************************)
(* A model of src/006_sudoku_solver.py: the Board class (a 9x9 grid, its   *)
(* constraint queries) and the recursive backtracking search               *)
(* Board.solver(), with the call stack of the recursion made explicit;     *)
(* and models of the other programs of the repository: the binary search   *)
(* tree, the budget categories, add_time and shortest_path.  Each program  *)
(* has its own variables and its own specification, in which the           *)
(* variables of the other programs stay at their initial values.           *)
(***************************************************************************)
EXTENDS Integers, Sequences, FiniteSets, TLC

(***************************************************************************)
(* Program constants.                                                      *)
(***************************************************************************)
\* range(9) in valid_in_col: the grid has 9 rows and 9 columns
N == 9
\* (row // 3) * 3 and range(row_start, row_start + 3) in valid_in_square
BlockSize == 3
\* range(1, 10) in solver: the candidates are 1 .. 9
MaxDigit == 9

(***************************************************************************)
(* Bounds of the model.                                                    *)
(***************************************************************************)
\* at most this many cells of the base grid are emptied in an input board
MaxHoles == 4
\* at most this many top-level calls of solver() are made on one input
MaxCalls == 2
\* the keys inserted into and deleted from the tree are 1 .. MaxKey
MaxKey == 5
\* the amounts deposited, withdrawn and transferred are -1 .. MaxAmount
MaxAmount == 2
\* a ledger holds at most this many entries
MaxLedger == 2
\* the durations given to add_time have 0 .. MaxDurationHours hours
MaxDurationHours == 49
\* the largest weight of an edge of an input graph of shortest_path
MaxWeight == 2
\* the number of writes of a call that trace keeps (the first ones); the
\* calls of Spec make at most 20 writes, the worked example makes thousands
MaxTrace == 40

Idx == 0 .. (N - 1)
Cells == Idx \X Idx
Digits == 1 .. MaxDigit

\* Python's None
None == <<>>

\* a Python list of lists, indexed from 0, from a tuple of tuples
ToBoard(t) == [r \in Idx |-> [c \in Idx |-> t[r + 1][c + 1]]]

(***************************************************************************)
(* The input boards.  Base is a complete valid grid (the completion of the *)
(* puzzle embedded in the source); an input is Base with a set of at most  *)
(* MaxHoles of the HoleCells emptied and, optionally, one cell             *)
(* overwritten.  The holes (0,0) (0,8) (2,0) (2,8) form a rectangle        *)
(* 9 4 / 4 9 with two completions; the overwrite of (8,7) by 5 makes a     *)
(* duplicate in row 8 unless (8,8) is a hole, and makes cell (0,7)         *)
(* impossible to fill.  With (0,0) (0,7) (6,0) emptied, only the block     *)
(* forbids 5 in cell (0,0).                                                *)
(***************************************************************************)
Base ==
  ToBoard(<< <<9, 6, 2, 1, 7, 8, 3, 5, 4>>,
             <<8, 1, 5, 9, 4, 3, 7, 6, 2>>,
             <<4, 3, 7, 6, 5, 2, 8, 1, 9>>,
             <<6, 5, 8, 2, 3, 1, 4, 9, 7>>,
             <<7, 4, 3, 8, 9, 5, 1, 2, 6>>,
             <<2, 9, 1, 4, 6, 7, 5, 8, 3>>,
             <<5, 8, 6, 7, 2, 4, 9, 3, 1>>,
             <<3, 2, 4, 5, 1, 9, 6, 7, 8>>,
             <<1, 7, 9, 3, 8, 6, 2, 4, 5>> >>)

HoleCells ==
  { <<0, 0>>, <<0, 7>>, <<0, 8>>, <<2, 0>>, <<2, 8>>, <<6, 0>>, <<8, 8>> }

Pokes == { None, <<8, 7, 5>> }

MakeInput(holes, poke) ==
  [r \in Idx |-> [c \in Idx |->
     IF <<r, c>> \in holes THEN 0
     ELSE IF poke # None /\ poke[1] = r /\ poke[2] = c THEN poke[3]
     ELSE Base[r][c]]]

\* the worked example of the source
puzzle ==
  ToBoard(<< <<0, 0, 2, 0, 0, 8, 0, 0, 0>>,
             <<0, 0, 0, 0, 0, 3, 7, 6, 2>>,
             <<4, 3, 0, 0, 0, 0, 8, 0, 0>>,
             <<0, 5, 0, 0, 3, 0, 0, 9, 0>>,
             <<0, 4, 0, 0, 0, 0, 0, 2, 6>>,
             <<0, 0, 0, 4, 6, 7, 0, 0, 0>>,
             <<0, 8, 6, 7, 0, 4, 0, 0, 0>>,
             <<0, 0, 0, 5, 1, 9, 0, 0, 8>>,
             <<1, 7, 0, 0, 0, 6, 0, 0, 5>> >>)

Inputs ==
  { MakeInput(holes, poke) :
      holes \in { h \in SUBSET HoleCells : Cardinality(h) <= MaxHoles },
      poke \in Pokes }

(***************************************************************************)
(* State.                                                                  *)
(***************************************************************************)
VARIABLES
  board,    \* self.board: the grid, mutated in place
  stack,    \* the active invocations of solver(), outermost first
  ret,      \* the value just returned by a nested invocation
  phase,    \* "running": a top-level solver() is active; "done": it returned
  result,   \* the value returned by the last top-level solver()
  input,    \* the grid the Board was constructed from
  entry,    \* the grid at the moment the current top-level call was made
  trace,    \* the writes <<row, col, value>> of the current top-level call
  ref,      \* what the first top-level call did: its writes, result, grid
  checks,   \* number of is_valid calls of the current top-level call
  calls,    \* number of nested invocations of the current top-level call
  ncalls    \* number of top-level calls made so far

vars == << board, stack, ret, phase, result, input, entry, trace, ref,
           checks, calls, ncalls >>

\* the state of the other programs
VARIABLES
  root,      \* BinarySearchTree.root: None or a node [key, left, right]
  keys,      \* the set of integers the tree stands for
  bst_call,  \* the last call made on the tree, and the tree before it
  ledger,    \* Category.ledger of every category: a list of entries
  last,      \* the last call made on a category and what it returned
  at_args,   \* the arguments of add_time
  at_result, \* the string add_time returned ("" before it returns)
  sp_args,   \* the arguments of shortest_path
  sp_pc,     \* shortest_path's position: "idle", "call", "loop", "done"
  unvisited, \* shortest_path's local list of the nodes left to visit
  distances, \* shortest_path's local dict node -> distance
  paths,     \* shortest_path's local dict node -> list of nodes
  sp_result  \* (distances, paths) as returned by shortest_path

bstVars == << root, keys, bst_call >>
budgetVars == << ledger, last >>
timeVars == << at_args, at_result >>
pathVars == << sp_args, sp_pc, unvisited, distances, paths, sp_result >>

(***************************************************************************)
(* Board's queries.                                                        *)
(***************************************************************************)
\* mutant: the greatest column of the row holding 0
RowIndexOfZero_last(b, row) ==
  CHOOSE col \in Idx : b[row][col] = 0 /\ \A k \in Idx : k > col => b[row][k] # 0

\* contents.index(0): the least column of the row holding 0
RowIndexOfZero(b, row) ==
  CHOOSE col \in Idx : b[row][col] = 0 /\ \A k \in Idx : k < col => b[row][k] # 0

RowHasZero(b, row) == \E col \in Idx : b[row][col] = 0

\* mutant: the column of the empty cell is lost, column 0 is returned
find_empty_cell_first_col(b) ==
  IF \E row \in Idx : RowHasZero(b, row)
  THEN LET row == CHOOSE r \in Idx :
                    RowHasZero(b, r) /\ \A k \in Idx : k < r => ~RowHasZero(b, k)
       IN  <<row, 0>>
  ELSE None

\* mutant: the final "return None" is replaced by the last cell scanned
find_empty_cell_never_none(b) ==
  IF \E row \in Idx : RowHasZero(b, row)
  THEN LET row == CHOOSE r \in Idx :
                    RowHasZero(b, r) /\ \A k \in Idx : k < r => ~RowHasZero(b, k)
       IN  <<row, RowIndexOfZero(b, row)>>
  ELSE <<N - 1, N - 1>>

\* mutant: reversed(list(enumerate(self.board))) and the last 0 of the row,
\* the last empty cell in row-major order is returned
find_empty_cell_last(b) ==
  IF \E row \in Idx : RowHasZero(b, row)
  THEN LET row == CHOOSE r \in Idx :
                    RowHasZero(b, r) /\ \A k \in Idx : k > r => ~RowHasZero(b, k)
       IN  <<row, RowIndexOfZero_last(b, row)>>
  ELSE None

find_empty_cell(b) ==
  IF \E row \in Idx : RowHasZero(b, row)
  THEN LET row == CHOOSE r \in Idx :
                    RowHasZero(b, r) /\ \A k \in Idx : k < r => ~RowHasZero(b, k)
       IN  <<row, RowIndexOfZero(b, row)>>
  ELSE None

valid_in_row(b, row, num) == \A col \in Idx : b[row][col] # num

\* mutant: range(8), the last row is not looked at
valid_in_col_off_by_one(b, col, num) ==
  \A row \in 0 .. (N - 2) : b[row][col] # num

valid_in_col(b, col, num) == \A row \in Idx : b[row][col] # num

\* mutant: the window scanned is one row and one column short
valid_in_square_small_window(b, row, col, num) ==
  LET row_start == (row \div BlockSize) * BlockSize
      col_start == (col \div BlockSize) * BlockSize
  IN  \A row_no \in row_start .. (row_start + BlockSize - 2) :
        \A col_no \in col_start .. (col_start + BlockSize - 2) :
          b[row_no][col_no] # num

valid_in_square(b, row, col, num) ==
  LET row_start == (row \div BlockSize) * BlockSize
      col_start == (col \div BlockSize) * BlockSize
  IN  \A row_no \in row_start .. (row_start + BlockSize - 1) :
        \A col_no \in col_start .. (col_start + BlockSize - 1) :
          b[row_no][col_no] # num

\* mutant: the block is not looked at
is_valid_row_col_only(b, empty, num) ==
  /\ valid_in_row(b, empty[1], num)
  /\ valid_in_col(b, empty[2], num)

is_valid(b, empty, num) ==
  /\ valid_in_row(b, empty[1], num)
  /\ valid_in_col(b, empty[2], num)
  /\ valid_in_square(b, empty[1], empty[2], num)

\* self.board[row][col] = value
SetCell(b, cell, value) ==
  [b EXCEPT ![cell[1]] = [@ EXCEPT ![cell[2]] = value]]


(***************************************************************************)
(* The call stack of solver().  A frame is one invocation: its position    *)
(* ("enter": before find_empty_cell; "loop": at the head of the for loop   *)
(* with the candidate guess, guess = MaxDigit + 1 once range(1, 10) is     *)
(* exhausted; "wait": inside the nested call of line 86), its next_empty   *)
(* cell and its loop variable; mark is the number of writes made before    *)
(* the invocation was entered.                                             *)
(***************************************************************************)
\* the write history of the call, with one more write
Record(write) == IF Len(trace) < MaxTrace THEN Append(trace, write) ELSE trace

NewFrame == [pc |-> "enter", cell |-> None, guess |-> 0, mark |-> 0]

\* the frame of a nested invocation, entered after the write just made
NestedFrame == [NewFrame EXCEPT !.mark = Len(trace) + 1]

Top == stack[Len(stack)]

SetTop(f) == [stack EXCEPT ![Len(stack)] = f]

Pop == SubSeq(stack, 1, Len(stack) - 1)

\* return v from the innermost invocation: to the invocation that called
\* it, or (the outermost invocation) to the caller of solver()
Return(v) ==
  /\ stack' = Pop
  /\ IF Len(stack) = 1
     THEN /\ phase' = "done"
          /\ result' = v
          /\ ret' = "None"
          /\ ref' = IF ncalls = 1
                    THEN [trace |-> trace, result |-> v, board |-> board]
                    ELSE ref
     ELSE /\ ret' = v
          /\ UNCHANGED << phase, result, ref >>

\* the other programs, not run: an empty tree, empty ledgers, no call made
BstInit == root = None /\ keys = {} /\ bst_call = None

\* the categories of the usage example: Category("Food"), Category("Clothing")
Categories == {"Food", "Clothing"}

BudgetInit == ledger = [c \in Categories |-> << >>] /\ last = None

\* add_time has not been called: no string returned yet
TimeInit == at_args = None /\ at_result = ""

\* shortest_path has not been called
PathInit ==
  /\ sp_args = None
  /\ sp_pc = "idle"
  /\ unvisited = << >>
  /\ distances = << >>
  /\ paths = << >>
  /\ sp_result = None

OthersInit == BstInit /\ BudgetInit /\ TimeInit /\ PathInit

OthersIdle == UNCHANGED << bstVars, budgetVars, timeVars, pathVars >>

Init ==
  /\ board \in Inputs
  /\ input = board
  /\ entry = board
  /\ stack = << >>
  /\ ret = "None"
  /\ phase = "new"
  /\ result = "None"
  /\ trace = << >>
  /\ ref = [trace |-> << >>, result |-> "None", board |-> board]
  /\ checks = 0
  /\ calls = 0
  /\ ncalls = 0
  /\ OthersInit

\* gameboard.solver(): a top-level call, on a new Board or on one that an
\* earlier call has returned from
call_solver ==
  /\ phase \in {"new", "done"}
  /\ ncalls < MaxCalls
  /\ phase' = "running"
  /\ stack' = << NewFrame >>
  /\ entry' = board
  /\ trace' = << >>
  /\ result' = "None"
  /\ checks' = 0
  /\ calls' = 0
  /\ ncalls' = ncalls + 1
  /\ UNCHANGED << board, ret, input, ref >>

\* Board(board) once more, on a grid equal to the input grid
new_board ==
  /\ phase = "done"
  /\ ncalls < MaxCalls
  /\ phase' = "new"
  /\ board' = input
  /\ UNCHANGED << stack, ret, result, input, entry, trace, ref, checks,
                  calls, ncalls >>

\* lines 80-81: no empty cell, return True
solver_base_case ==
  /\ phase = "running"
  /\ Top.pc = "enter"
  /\ find_empty_cell(board) = None
  /\ Return("True")
  /\ UNCHANGED << board, input, entry, trace, checks, calls, ncalls >>

\* lines 80, 82: an empty cell is found, the loop over range(1, 10) starts
solver_start_loop ==
  /\ phase = "running"
  /\ Top.pc = "enter"
  /\ find_empty_cell(board) # None
  /\ stack' = SetTop([Top EXCEPT !.pc = "loop",
                                  !.cell = find_empty_cell(board),
                                  !.guess = 1])
  /\ UNCHANGED << board, ret, phase, result, input, entry, trace, ref,
                  checks, calls, ncalls >>

\* mutant: the assignment of line 85 is missing, the nested call is made
\* on the unchanged grid
solver_try_guess_no_assign ==
  /\ phase = "running"
  /\ Top.pc = "loop"
  /\ Top.guess <= MaxDigit
  /\ checks' = checks + 1
  /\ IF is_valid(board, Top.cell, Top.guess)
     THEN /\ stack' = Append(SetTop([Top EXCEPT !.pc = "wait"]), NewFrame)
          /\ calls' = calls + 1
          /\ UNCHANGED << board, trace >>
     ELSE /\ stack' = SetTop([Top EXCEPT !.guess = @ + 1])
          /\ UNCHANGED << board, trace, calls >>
  /\ UNCHANGED << ret, phase, result, input, entry, ref, ncalls >>

\* mutant: the candidates are drawn in no fixed order (any remaining one
\* may come next)
solver_try_guess_any_order ==
  /\ phase = "running"
  /\ Top.pc = "loop"
  /\ Top.guess <= MaxDigit
  /\ checks' = checks + 1
  /\ \E g \in Top.guess .. MaxDigit :
       IF is_valid(board, Top.cell, g)
       THEN /\ board' = SetCell(board, Top.cell, g)
            /\ trace' = Record(<<Top.cell[1], Top.cell[2], g>>)
            /\ stack' = Append(SetTop([Top EXCEPT !.pc = "wait", !.guess = g]),
                               NestedFrame)
            /\ calls' = calls + 1
       ELSE /\ stack' = SetTop([Top EXCEPT !.guess = g + 1])
            /\ UNCHANGED << board, trace, calls >>
  /\ UNCHANGED << ret, phase, result, input, entry, ref, ncalls >>

\* mutant: reversed(range(1, 10)), the candidates are tried from 9 down
solver_try_guess_descending ==
  /\ phase = "running"
  /\ Top.pc = "loop"
  /\ Top.guess <= MaxDigit
  /\ checks' = checks + 1
  /\ LET num == MaxDigit + 1 - Top.guess
     IN  IF is_valid(board, Top.cell, num)
         THEN /\ board' = SetCell(board, Top.cell, num)
              /\ trace' = Record(<<Top.cell[1], Top.cell[2], num>>)
              /\ stack' = Append(SetTop([Top EXCEPT !.pc = "wait"]), NestedFrame)
              /\ calls' = calls + 1
         ELSE /\ stack' = SetTop([Top EXCEPT !.guess = @ + 1])
              /\ UNCHANGED << board, trace, calls >>
  /\ UNCHANGED << ret, phase, result, input, entry, ref, ncalls >>

\* lines 83-86: test the candidate; if valid assign it and recurse, else
\* go on with the next candidate
solver_try_guess ==
  /\ phase = "running"
  /\ Top.pc = "loop"
  /\ Top.guess <= MaxDigit
  /\ checks' = checks + 1
  /\ IF is_valid(board, Top.cell, Top.guess)
     THEN /\ board' = SetCell(board, Top.cell, Top.guess)
          /\ trace' = Record(<<Top.cell[1], Top.cell[2], Top.guess>>)
          /\ stack' = Append(SetTop([Top EXCEPT !.pc = "wait"]), NestedFrame)
          /\ calls' = calls + 1
     ELSE /\ stack' = SetTop([Top EXCEPT !.guess = @ + 1])
          /\ UNCHANGED << board, trace, calls >>
  /\ UNCHANGED << ret, phase, result, input, entry, ref, ncalls >>

\* mutant: the cell is reset on the way out of a successful call as well
solver_child_true_resets ==
  /\ phase = "running"
  /\ Top.pc = "wait"
  /\ ret = "True"
  /\ board' = SetCell(board, Top.cell, 0)
  /\ trace' = Record(<<Top.cell[1], Top.cell[2], 0>>)
  /\ Return("True")
  /\ UNCHANGED << input, entry, checks, calls, ncalls >>

\* lines 86-87: the nested call returned True, return True
solver_child_true ==
  /\ phase = "running"
  /\ Top.pc = "wait"
  /\ ret = "True"
  /\ Return("True")
  /\ UNCHANGED << board, input, entry, trace, checks, calls, ncalls >>

\* mutant: "return self.solver()": a failed nested call ends the search of
\* this invocation
solver_child_false_gives_up ==
  /\ phase = "running"
  /\ Top.pc = "wait"
  /\ ret = "False"
  /\ Return("False")
  /\ UNCHANGED << board, input, entry, trace, checks, calls, ncalls >>

\* mutant: the reset of line 88 is missing
solver_child_false_no_reset ==
  /\ phase = "running"
  /\ Top.pc = "wait"
  /\ ret = "False"
  /\ stack' = SetTop([Top EXCEPT !.pc = "loop", !.guess = @ + 1])
  /\ ret' = "None"
  /\ UNCHANGED << board, trace, phase, result, input, entry, ref, checks,
                  calls, ncalls >>

\* mutant: only the outermost invocation resets its cell
solver_child_false_resets_top_only ==
  /\ phase = "running"
  /\ Top.pc = "wait"
  /\ ret = "False"
  /\ IF Len(stack) = 1
       THEN /\ board' = SetCell(board, Top.cell, 0)
            /\ trace' = Record(<<Top.cell[1], Top.cell[2], 0>>)
       ELSE UNCHANGED << board, trace >>
  /\ stack' = SetTop([Top EXCEPT !.pc = "loop", !.guess = @ + 1])
  /\ ret' = "None"
  /\ UNCHANGED << phase, result, input, entry, ref, checks, calls, ncalls >>

\* lines 86, 88: the nested call returned False, reset the cell and go on
\* with the next candidate
solver_child_false ==
  /\ phase = "running"
  /\ Top.pc = "wait"
  /\ ret = "False"
  /\ board' = SetCell(board, Top.cell, 0)
  /\ trace' = Record(<<Top.cell[1], Top.cell[2], 0>>)
  /\ stack' = SetTop([Top EXCEPT !.pc = "loop", !.guess = @ + 1])
  /\ ret' = "None"
  /\ UNCHANGED << phase, result, input, entry, ref, checks, calls, ncalls >>

\* line 89: range(1, 10) is exhausted, return False
solver_exhausted ==
  /\ phase = "running"
  /\ Top.pc = "loop"
  /\ Top.guess > MaxDigit
  /\ Return("False")
  /\ UNCHANGED << board, input, entry, trace, checks, calls, ncalls >>

Next ==
  \/ call_solver /\ OthersIdle
  \/ new_board /\ OthersIdle
  \/ solver_base_case /\ OthersIdle
  \/ solver_start_loop /\ OthersIdle
  \/ solver_try_guess /\ OthersIdle
  \/ solver_child_true /\ OthersIdle
  \/ solver_child_false /\ OthersIdle
  \/ solver_exhausted /\ OthersIdle

Spec == Init /\ [][Next]_vars

\* the program runs to completion: a step that can be taken is taken
FairSpec == Spec /\ WF_vars(Next)

(***************************************************************************)
(* The run of the source itself: solve_sudoku(puzzle), one Board, one call *)
(* of solver().                                                            *)
(***************************************************************************)
PuzzleInit ==
  /\ board = puzzle
  /\ input = board
  /\ entry = board
  /\ stack = << >>
  /\ ret = "None"
  /\ phase = "new"
  /\ result = "None"
  /\ trace = << >>
  /\ ref = [trace |-> << >>, result |-> "None", board |-> board]
  /\ checks = 0
  /\ calls = 0
  /\ ncalls = 0
  /\ OthersInit

PuzzleNext ==
  \/ call_solver /\ ncalls = 0 /\ OthersIdle
  \/ solver_base_case /\ OthersIdle
  \/ solver_start_loop /\ OthersIdle
  \/ solver_try_guess /\ OthersIdle
  \/ solver_child_true /\ OthersIdle
  \/ solver_child_false /\ OthersIdle
  \/ solver_exhausted /\ OthersIdle

PuzzleSpec == PuzzleInit /\ [][PuzzleNext]_vars

(***************************************************************************)
(* src/007_binary_search_tree.py.  A TreeNode is a record [key, left,      *)
(* right], an absent child is None.  A tree is reached through its root    *)
(* alone, so the in-place updates of the nodes are modelled by the value   *)
(* of the updated tree.                                                    *)
(***************************************************************************)
BstKeys == 1 .. MaxKey

TreeNode(key) == [key |-> key, left |-> None, right |-> None]

RECURSIVE _insert(_, _)
_insert(node, key) ==
  IF node = None THEN TreeNode(key)
  ELSE IF key < node.key
       THEN [node EXCEPT !.left = _insert(node.left, key)]
  ELSE IF key > node.key
       THEN [node EXCEPT !.right = _insert(node.right, key)]
  ELSE node

RECURSIVE _search(_, _)
_search(node, key) ==
  IF node = None THEN node
  ELSE IF node.key = key THEN node
  ELSE IF key < node.key THEN _search(node.left, key)
  ELSE _search(node.right, key)

search(key) == _search(root, key)

RECURSIVE _min_value(_)
_min_value(node) ==
  IF node.left # None THEN _min_value(node.left) ELSE node.key

\* mutant: line 173 is missing, the inorder successor is not deleted
RECURSIVE _delete_keeps_successor(_, _)
_delete_keeps_successor(node, key) ==
  IF node = None THEN node
  ELSE IF key < node.key
       THEN [node EXCEPT !.left = _delete_keeps_successor(node.left, key)]
  ELSE IF key > node.key
       THEN [node EXCEPT !.right = _delete_keeps_successor(node.right, key)]
  ELSE IF node.left = None THEN node.right
  ELSE IF node.right = None THEN node.left
  ELSE [node EXCEPT !.key = _min_value(node.right)]

RECURSIVE _delete(_, _)
_delete(node, key) ==
  IF node = None THEN node
  ELSE IF key < node.key
       THEN [node EXCEPT !.left = _delete(node.left, key)]
  ELSE IF key > node.key
       THEN [node EXCEPT !.right = _delete(node.right, key)]
  ELSE IF node.left = None THEN node.right
  ELSE IF node.right = None THEN node.left
  ELSE LET successor == _min_value(node.right)
       IN  [node EXCEPT !.key = successor,
                        !.right = _delete(node.right, successor)]

\* the list res (the parameter result) with the keys of the subtree
\* appended, in order
RECURSIVE _inorder_traversal(_, _)
_inorder_traversal(node, res) ==
  IF node # None
  THEN _inorder_traversal(node.right,
         Append(_inorder_traversal(node.left, res), node.key))
  ELSE res

inorder_traversal == _inorder_traversal(root, << >>)

\* bst.insert(key)
insert ==
  \E key \in BstKeys :
    /\ root' = _insert(root, key)
    /\ keys' = keys \cup {key}
    /\ bst_call' = [op |-> "insert", key |-> key, before |-> root]

\* bst.delete(key)
delete ==
  \E key \in BstKeys :
    /\ root' = _delete(root, key)
    /\ keys' = keys \ {key}
    /\ bst_call' = [op |-> "delete", key |-> key, before |-> root]

BstIdle == UNCHANGED << vars, budgetVars, timeVars, pathVars >>

\* the Board of the sudoku solver, not used
SolverInit ==
  /\ board = Base
  /\ input = Base
  /\ entry = Base
  /\ stack = << >>
  /\ ret = "None"
  /\ phase = "new"
  /\ result = "None"
  /\ trace = << >>
  /\ ref = [trace |-> << >>, result |-> "None", board |-> Base]
  /\ checks = 0
  /\ calls = 0
  /\ ncalls = 0

BstSpecInit == BstInit /\ SolverInit /\ BudgetInit /\ TimeInit /\ PathInit

BstNext ==
  \/ insert /\ BstIdle
  \/ delete /\ BstIdle

BstSpec == BstSpecInit /\ [][BstNext]_bstVars

(***************************************************************************)
(* src/008_budget_app.py.  A Category is named by its name; ledger[c] is   *)
(* its list of entries {"amount": ..., "description": ...}.                *)
(***************************************************************************)
Amounts == (0 - 1) .. MaxAmount

\* sum(item["amount"] for item in l)
RECURSIVE SumAmounts(_)
SumAmounts(l) ==
  IF l = << >> THEN 0 ELSE Head(l).amount + SumAmounts(Tail(l))

get_balance(lg, self) == SumAmounts(lg[self])

\* mutant: "<" for "<=", the whole balance cannot be taken out
check_funds_strict(lg, self, amount) == amount < get_balance(lg, self)

check_funds(lg, self, amount) == amount <= get_balance(lg, self)

\* the ledgers after self.deposit(amount, description)
Deposited(lg, self, amount, description) ==
  [lg EXCEPT ![self] =
     Append(@, [amount |-> amount, description |-> description])]

\* the ledgers after self.withdraw(amount, description)
Withdrawn(lg, self, amount, description) ==
  IF check_funds(lg, self, amount)
  THEN [lg EXCEPT ![self] =
          Append(@, [amount |-> 0 - amount, description |-> description])]
  ELSE lg

\* the ledgers after self.transfer(amount, category), when funds suffice
Transferred(lg, self, amount, category) ==
  Deposited(Withdrawn(lg, self, amount, "Transfer to " \o category),
            category, amount, "Transfer from " \o self)

Call(op, self, amount, category, returned) ==
  [op |-> op, self |-> self, amount |-> amount, category |-> category,
   ret |-> returned, before |-> ledger]

deposit ==
  \E self \in Categories, amount \in Amounts :
    /\ Len(ledger[self]) < MaxLedger
    /\ ledger' = Deposited(ledger, self, amount, "")
    /\ last' = Call("deposit", self, amount, self, "None")

withdraw ==
  \E self \in Categories, amount \in Amounts :
    /\ Len(ledger[self]) < MaxLedger
    /\ ledger' = Withdrawn(ledger, self, amount, "")
    /\ last' = Call("withdraw", self, amount, self,
                    IF check_funds(ledger, self, amount) THEN "True" ELSE "False")

transfer ==
  \E self \in Categories, category \in Categories, amount \in Amounts :
    /\ \A c \in Categories :
         Len(Transferred(ledger, self, amount, category)[c]) <= MaxLedger
    /\ IF check_funds(ledger, self, amount)
       THEN /\ ledger' = Transferred(ledger, self, amount, category)
            /\ last' = Call("transfer", self, amount, category, "True")
       ELSE /\ ledger' = ledger
            /\ last' = Call("transfer", self, amount, category, "False")

BudgetIdle == UNCHANGED << vars, bstVars, timeVars, pathVars >>

BudgetSpecInit == BudgetInit /\ SolverInit /\ BstInit /\ TimeInit /\ PathInit

BudgetNext ==
  \/ deposit /\ BudgetIdle
  \/ withdraw /\ BudgetIdle
  \/ transfer /\ BudgetIdle

BudgetSpec == BudgetSpecInit /\ [][BudgetNext]_budgetVars

(***************************************************************************)
(* src/005_time_calculator.py.  The arguments start_time and duration are  *)
(* strings, modelled as sequences of characters so that split and int act  *)
(* on them; the returned string is built with \o.  The calls modelled pass *)
(* no start_day (lines 48-61 are skipped).                                 *)
(***************************************************************************)
DigitChars == << "0", "1", "2", "3", "4", "5", "6", "7", "8", "9" >>

\* int(s) for a sequence of digit characters
RECURSIVE int(_)
int(chars) ==
  IF chars = << >> THEN 0
  ELSE LET d == CHOOSE i \in 1 .. 10 : DigitChars[i] = chars[Len(chars)]
       IN  10 * int(SubSeq(chars, 1, Len(chars) - 1)) + (d - 1)

\* s.split(sep) for a string holding sep exactly once
split(chars, sep) ==
  LET i == CHOOSE j \in 1 .. Len(chars) : chars[j] = sep
  IN  << SubSeq(chars, 1, i - 1), SubSeq(chars, i + 1, Len(chars)) >>

\* "".join(chars)
RECURSIVE join(_)
join(chars) == IF chars = << >> THEN "" ELSE Head(chars) \o join(Tail(chars))

\* f"{n}"
RECURSIVE str(_)
str(n) ==
  IF n < 10 THEN DigitChars[n + 1]
  ELSE str(n \div 10) \o DigitChars[(n % 10) + 1]

\* f"{n:02d}"
str02d(n) == IF n < 10 THEN "0" \o str(n) ELSE str(n)

add_time(start_time, duration) ==
  LET time == split(start_time, " ")[1]
      period == join(split(start_time, " ")[2])
      hours0 == int(split(time, ":")[1])
      minutes == int(split(time, ":")[2])
      duration_hours == int(split(duration, ":")[1])
      duration_minutes == int(split(duration, ":")[2])
      hours == IF period = "PM" THEN hours0 + 12 ELSE hours0
      total_minutes == hours * 60 + minutes + duration_hours * 60
                         + duration_minutes
      new_hours0 == (total_minutes \div 60) % 24
      new_minutes == total_minutes % 60
      days_passed == total_minutes \div (24 * 60)
      new_period == IF new_hours0 < 12 THEN "AM" ELSE "PM"
      new_hours == IF new_hours0 = 0 THEN 12
                   ELSE IF new_hours0 > 12 THEN new_hours0 - 12
                   ELSE new_hours0
      new_time == str(new_hours) \o ":" \o str02d(new_minutes) \o " "
                    \o new_period
  IN  IF days_passed = 1 THEN new_time \o " (next day)"
      ELSE IF days_passed > 1
           THEN new_time \o " (" \o str(days_passed) \o " days later)"
      ELSE new_time

\* the characters of the decimal numeral of n, with at least w digits
RECURSIVE Numeral(_, _)
Numeral(n, w) ==
  IF n < 10 /\ w <= 1 THEN << DigitChars[n + 1] >>
  ELSE Append(Numeral(n \div 10, w - 1), DigitChars[(n % 10) + 1])

\* the start times 'h:mm AM' and 'h:mm PM' and the durations 'H:MM' given
StartMinutes == {0, 5, 30, 59}

DurationMinutes == {0, 1, 30, 59}

StartTimes ==
  { Numeral(h, 1) \o << ":" >> \o Numeral(m, 2) \o << " " >> \o p :
      h \in 1 .. 12, m \in StartMinutes, p \in { << "A", "M" >>, << "P", "M" >> } }

Durations ==
  { Numeral(h, 1) \o << ":" >> \o Numeral(m, 2) :
      h \in 0 .. MaxDurationHours, m \in DurationMinutes }
    \cup { << "4", "6", "6", ":", "0", "2" >> }

TimeSpecInit ==
  /\ at_args \in { [start_time |-> st, duration |-> d] :
                     st \in StartTimes, d \in Durations }
  /\ at_result = ""
  /\ SolverInit /\ BstInit /\ BudgetInit /\ PathInit

TimeIdle == UNCHANGED << vars, bstVars, budgetVars, pathVars >>

\* add_time(start_time, duration)
add_time_call ==
  /\ at_result = ""
  /\ at_result' = add_time(at_args.start_time, at_args.duration)
  /\ UNCHANGED at_args

TimeNext == add_time_call /\ TimeIdle

TimeSpec == TimeSpecInit /\ [][TimeNext]_timeVars

(***************************************************************************)
(* src/002_shortest_path_graph.py.  A graph is a dict: the list of its     *)
(* keys in insertion order and, for every key, the list of its             *)
(* (neighbor, weight) tuples.  float("inf") is the value inf, with the     *)
(* arithmetic and the order of the floats.  One action is one iteration of *)
(* the while loop; the printing of lines 53-59 changes no state.           *)
(***************************************************************************)
inf == 0 - 1

\* a + b where either may be float("inf")
add(a, b) == IF a = inf \/ b = inf THEN inf ELSE a + b

\* a < b where either may be float("inf")
lt(a, b) == a # inf /\ (b = inf \/ a < b)

\* mutant: the first unvisited node, whatever its distance
min_first_unvisited(unv, key) == unv[1]

\* min(unvisited, key=distances.get): the first element of least key
min(unv, key) ==
  LET i == CHOOSE i \in 1 .. Len(unv) :
             /\ \A j \in 1 .. Len(unv) : ~ lt(key[unv[j]], key[unv[i]])
             /\ \A j \in 1 .. i - 1 : lt(key[unv[i]], key[unv[j]])
  IN  unv[i]

\* unvisited.remove(current): without the first occurrence of current
remove(unv, current) ==
  LET i == CHOOSE i \in 1 .. Len(unv) :
             unv[i] = current /\ \A j \in 1 .. i - 1 : unv[j] # current
  IN  SubSeq(unv, 1, i - 1) \o SubSeq(unv, i + 1, Len(unv))

\* lines 43-50: the for loop over graph[current] from its i-th tuple on,
\* on the locals <<distances, paths>>
RECURSIVE relax(_, _, _, _)
relax(edges, i, current, locals) ==
  IF i > Len(edges) THEN locals
  ELSE LET node == edges[i][1]
           distance == edges[i][2]
           d == locals[1]
           p == locals[2]
       IN  IF lt(add(distance, d[current]), d[node])
             THEN relax(edges, i + 1, current,
                    << [d EXCEPT ![node] = add(distance, d[current])],
                       [p EXCEPT ![node] =
                          (IF p[node] # << >> /\ p[node][Len(p[node])] = node
                             THEN p[current]
                             ELSE p[node] \o p[current]) \o << node >>] >>)
             ELSE relax(edges, i + 1, current, locals)

\* the input graphs: every directed graph on three nodes with weights in
\* 0 .. MaxWeight, and my_graph of the source
Nodes3 == << "A", "B", "C" >>

Pairs3 == { << Nodes3[i], Nodes3[j] >> : i, j \in 1 .. 3 } \
            { << Nodes3[i], Nodes3[i] >> : i \in 1 .. 3 }

MakeGraph(w) ==
  [keys |-> Nodes3,
   adj  |-> [n \in {"A", "B", "C"} |->
               LET nbrs == SelectSeq(Nodes3,
                             LAMBDA m : << n, m >> \in DOMAIN w)
               IN  [i \in 1 .. Len(nbrs) |-> << nbrs[i], w[<< n, nbrs[i] >>] >>]]]

my_graph ==
  [keys |-> << "A", "B", "C", "D", "E", "F" >>,
   adj  |-> [n \in {"A", "B", "C", "D", "E", "F"} |->
     CASE n = "A" -> << << "B", 5 >>, << "C", 3 >>, << "E", 11 >> >>
       [] n = "B" -> << << "A", 5 >>, << "C", 1 >>, << "F", 2 >> >>
       [] n = "C" -> << << "A", 3 >>, << "B", 1 >>, << "D", 1 >>, << "E", 5 >> >>
       [] n = "D" -> << << "C", 1 >>, << "E", 9 >>, << "F", 3 >> >>
       [] n = "E" -> << << "A", 11 >>, << "C", 5 >>, << "D", 9 >> >>
       [] n = "F" -> << << "B", 2 >>, << "D", 3 >> >>]]

Graphs ==
  { MakeGraph(w) : w \in UNION { [E -> 0 .. MaxWeight] : E \in SUBSET Pairs3 } }
    \cup {my_graph}

PathSpecInit ==
  /\ sp_args \in { [graph |-> g, start |-> g.keys[i]] :
                     g \in Graphs, i \in 1 .. 3 }
  /\ sp_pc = "call"
  /\ unvisited = << >>
  /\ distances = << >>
  /\ paths = << >>
  /\ sp_result = None
  /\ SolverInit /\ BstInit /\ BudgetInit /\ TimeInit

PathIdle == UNCHANGED << vars, bstVars, budgetVars, timeVars >>

\* lines 36-39
shortest_path_enter ==
  /\ sp_pc = "call"
  /\ LET graph == sp_args.graph
         start == sp_args.start
     IN  /\ unvisited' = graph.keys
         /\ distances' = [node \in DOMAIN graph.adj |->
                            IF node = start THEN 0 ELSE inf]
         /\ paths' = [node \in DOMAIN graph.adj |->
                        IF node = start THEN << start >> ELSE << >>]
  /\ sp_pc' = "loop"
  /\ UNCHANGED << sp_args, sp_result >>

\* lines 41-51: one iteration of the while loop
shortest_path_visit ==
  /\ sp_pc = "loop"
  /\ unvisited # << >>
  /\ LET current == min(unvisited, distances)
         locals == relax(sp_args.graph.adj[current], 1, current,
                         << distances, paths >>)
     IN  /\ distances' = locals[1]
         /\ paths' = locals[2]
         /\ unvisited' = remove(unvisited, current)
  /\ UNCHANGED << sp_args, sp_pc, sp_result >>

\* lines 41, 53-61: the loop ends, the pair is returned
shortest_path_return ==
  /\ sp_pc = "loop"
  /\ unvisited = << >>
  /\ sp_result' = [distances |-> distances, paths |-> paths]
  /\ sp_pc' = "done"
  /\ UNCHANGED << sp_args, unvisited, distances, paths >>

PathNext ==
  \/ shortest_path_enter /\ PathIdle
  \/ shortest_path_visit /\ PathIdle
  \/ shortest_path_return /\ PathIdle

PathSpec == PathSpecInit /\ [][PathNext]_pathVars

(***************************************************************************)
(* The vocabulary of the properties: the 27 constraint scopes, uniqueness, *)
(* and the completions of a grid, defined without the solver.              *)
(***************************************************************************)
At(b, cell) == b[cell[1]][cell[2]]

EmptyCells(b) == { cell \in Cells : At(b, cell) = 0 }

RowCells(r) == { <<r, c>> : c \in Idx }

ColCells(c) == { <<r, c>> : r \in Idx }

\* the block whose origin is (row - row mod 3, col - col mod 3)
BlockCells(cell) ==
  { q \in Cells : /\ q[1] - (q[1] % BlockSize) = cell[1] - (cell[1] % BlockSize)
                  /\ q[2] - (q[2] % BlockSize) = cell[2] - (cell[2] % BlockSize) }

Units ==
  { RowCells(r) : r \in Idx } \cup { ColCells(c) : c \in Idx }
    \cup { BlockCells(cell) : cell \in Cells }

\* no digit occurs twice among the filled cells of a row, column or block
NoDuplicate(b) ==
  \A u \in Units : \A p \in u : \A q \in u :
    (p # q /\ At(b, p) # 0) => At(b, p) # At(b, q)

\* no empty cell, and every row, column and block holds each digit once
Solved(b) ==
  /\ EmptyCells(b) = {}
  /\ \A u \in Units : \A d \in Digits :
       Cardinality({ p \in u : At(b, p) = d }) = 1

\* the digits that no filled cell of the cell's row, column and block holds
Allowed(b, cell) ==
  Digits \ { At(b, q) : q \in RowCells(cell[1]) \cup ColCells(cell[2])
                                \cup BlockCells(cell) }

\* the solved grids that agree with b on its filled cells
RECURSIVE Completions(_)
Completions(b) ==
  IF EmptyCells(b) = {}
  THEN IF Solved(b) THEN {b} ELSE {}
  ELSE LET cell == CHOOSE c \in EmptyCells(b) : TRUE
       IN  UNION { Completions(SetCell(b, cell, d)) : d \in Allowed(b, cell) }

\* the writes of the current call that reset a cell
Rollbacks == { i \in 1 .. Len(trace) : trace[i][3] = 0 }

IsPrefix(s, t) == Len(s) <= Len(t) /\ SubSeq(t, 1, Len(s)) = s

\* nesting level of the innermost invocation (the top-level call is level 0)
Depth == IF Len(stack) = 0 THEN 0 ELSE Len(stack) - 1

(***************************************************************************)
(* The claims.                                                             *)
(***************************************************************************)

\* C1: for a call made on a grid without duplicate, whenever solver()
\* returns True the grid has no empty cell and every row, column and block
\* holds each digit 1-9 exactly once.
C1_SolvedWhenTrue ==
  (phase = "done" /\ result = "True" /\ NoDuplicate(entry)) => Solved(board)

\* a call that filled several cells, backtracked, and returned True
C1_Witness ==
  /\ phase = "done" /\ result = "True" /\ NoDuplicate(entry)
  /\ Cardinality(EmptyCells(entry)) >= 3
  /\ Rollbacks # {}
  /\ Solved(board)

\* C2: for a grid without duplicate, solver() returns False exactly when
\* the grid has no completion (and True whenever it has one).
C2_FalseIffUnsolvable ==
  (phase = "done" /\ NoDuplicate(entry)) =>
     /\ result \in {"True", "False"}
     /\ (result = "False") <=> (Completions(entry) = {})

\* a grid without duplicate and without completion, on which the search
\* assigned cells before it returned False
C2_Witness ==
  /\ phase = "done" /\ NoDuplicate(entry) /\ result = "False"
  /\ Completions(entry) = {}
  /\ trace # << >>

\* C3: if the top-level solver() returns False, the grid equals the grid
\* at the moment of the call.
C3_FailurePreservesInput ==
  (phase = "done" /\ result = "False") => board = entry

\* a failed call that wrote and reset at least two cells
C3_Witness ==
  /\ phase = "done" /\ result = "False"
  /\ Cardinality(Rollbacks) >= 2
  /\ board = entry

\* C4: at every point, every cell that was non-empty in the input holds
\* the input's digit, and only cells empty in the input are ever written.
C4_GivenCluesKept ==
  /\ \A cell \in Cells : At(input, cell) # 0 => At(board, cell) = At(input, cell)
  /\ \A i \in 1 .. Len(trace) : At(input, <<trace[i][1], trace[i][2]>>) = 0

\* in the middle of a search that has assigned and reset cells
C4_Witness ==
  /\ phase = "running"
  /\ Rollbacks # {}
  /\ \E cell \in EmptyCells(input) : At(board, cell) # 0
  /\ \E cell \in Cells : At(input, cell) # 0

\* C5: starting from a grid without duplicate, in every state of the
\* search the filled cells hold no duplicate in any row, column or block.
C5_UniquenessInvariant ==
  NoDuplicate(input) => NoDuplicate(board)

\* a state right after a rollback, with other tentative digits in place
C5_Witness ==
  /\ phase = "running" /\ NoDuplicate(input)
  /\ Len(trace) >= 3 /\ trace[Len(trace)][3] = 0
  /\ board # input

\* the nesting level never exceeds the number of cells empty at the call,
\* and an invocation is entered with one more filled cell than its caller
DepthBounded ==
  /\ Depth <= Cardinality(EmptyCells(entry))
  /\ (phase = "running" /\ Top.pc = "enter") =>
        Cardinality(EmptyCells(board)) = Cardinality(EmptyCells(entry)) - Depth

\* C6: solver() terminates on every grid (also one that violates
\* uniqueness), and the recursion depth never exceeds the number of cells
\* that were empty in the input.
C6_TerminatesDepthBounded ==
  /\ []DepthBounded
  /\ (phase = "running") ~> (phase = "done")

\* a call on a grid with a duplicate has returned, after nested calls
C6_Witness ==
  /\ phase = "done" /\ ~NoDuplicate(entry)
  /\ calls >= 2
  /\ Cardinality(EmptyCells(entry)) >= 2

\* C7: for a grid that already holds a duplicate, what the caller observes
\* differs from the plain False of an unsolvable puzzle, and is never True
\* on a grid that still holds the duplicate.
C7_InvalidInputDistinguished ==
  (phase = "done" /\ ~NoDuplicate(entry)) =>
     /\ result # "False"
     /\ ~(result = "True" /\ ~NoDuplicate(board))

\* C8: solver() on a grid without empty cell returns True at once: no
\* validity check, no nested call, no write.
C8_FullBoardIdempotent ==
  (phase \in {"running", "done"} /\ EmptyCells(entry) = {}) =>
     /\ checks = 0 /\ calls = 0 /\ trace = << >> /\ board = entry
     /\ phase = "running" => stack = << NewFrame >>
     /\ phase = "done" => result = "True"

\* the second call on a Board that the first call solved has returned
C8_Witness ==
  /\ phase = "done" /\ ncalls = 2 /\ result = "True"
  /\ EmptyCells(entry) = {} /\ EmptyCells(input) # {}
  /\ ref.trace # << >>

\* C9: a run started from a grid equal to the first run's grid makes the
\* same writes in the same order, and ends with the same result and grid.
C9_Deterministic ==
  (ncalls >= 2 /\ entry = input) =>
     /\ IsPrefix(trace, ref.trace)
     /\ phase = "done" =>
          /\ trace = ref.trace
          /\ result = ref.result
          /\ board = ref.board

\* a second run from an equal grid has ended, after backtracking
C9_Witness ==
  /\ phase = "done" /\ ncalls = 2 /\ entry = input
  /\ Rollbacks # {}
  /\ trace = ref.trace /\ result = "True"

\* C11: on the worked example of the source, solver() returns True and
\* leaves a complete grid that satisfies row, column and block uniqueness
\* and agrees with every given clue.
C11_PuzzleSolved ==
  phase = "done" =>
     /\ result = "True"
     /\ Solved(board)
     /\ \A cell \in Cells : At(puzzle, cell) # 0 => At(board, cell) = At(puzzle, cell)

\* the call on the worked example has returned, after backtracking
C11_Witness ==
  /\ phase = "done" /\ input = puzzle /\ result = "True"
  /\ Rollbacks # {}
  /\ Solved(board)

\* the keys of S in strictly ascending order
RECURSIVE Ascending(_)
Ascending(S) ==
  IF S = {} THEN << >>
  ELSE LET m == CHOOSE x \in S : \A y \in S : x <= y
       IN  << m >> \o Ascending(S \ {m})

HasTwoChildren(node) == node # None /\ node.left # None /\ node.right # None

\* C12: after any sequence of insert and delete calls, inorder_traversal()
\* returns exactly the keys of the set built by the same calls, in strictly
\* ascending order, and search(k) returns a node with key k if k is in that
\* set and None otherwise.
C12_BstRefinesSet ==
  /\ inorder_traversal = Ascending(keys)
  /\ \A k \in 0 .. (MaxKey + 1) :
       IF k \in keys
       THEN search(k) # None /\ search(k).key = k
       ELSE search(k) = None

\* a key whose node had two children, the right one with a left child,
\* has just been deleted
C12_Witness ==
  /\ bst_call # None /\ bst_call.op = "delete"
  /\ HasTwoChildren(_search(bst_call.before, bst_call.key))
  /\ _search(bst_call.before, bst_call.key).right.left # None
  /\ Cardinality(keys) >= 3

\* list l with exactly one entry of the given amount appended
OneMore(old, new, amount) ==
  /\ Len(new) = Len(old) + 1
  /\ SubSeq(new, 1, Len(old)) = old
  /\ new[Len(new)].amount = amount

\* C13: withdraw(amount) and transfer(amount, other) return False and leave
\* every ledger unchanged when amount exceeds the balance; otherwise they
\* return True, withdraw appends one entry of -amount, transfer appends one
\* entry of -amount to the source and one of +amount to the destination,
\* and the sum of the two balances is unchanged.
C13_FundsChecked ==
  (last # None /\ last.op \in {"withdraw", "transfer"}
     /\ (last.op = "transfer" => last.category # last.self)) =>
    IF last.amount > get_balance(last.before, last.self)
    THEN last.ret = "False" /\ ledger = last.before
    ELSE /\ last.ret = "True"
         /\ OneMore(last.before[last.self], ledger[last.self], 0 - last.amount)
         /\ IF last.op = "withdraw"
            THEN \A c \in Categories \ {last.self} : ledger[c] = last.before[c]
            ELSE /\ OneMore(last.before[last.category], ledger[last.category],
                            last.amount)
                 /\ \A c \in Categories \ {last.self, last.category} :
                      ledger[c] = last.before[c]
                 /\ get_balance(ledger, last.self)
                      + get_balance(ledger, last.category)
                    = get_balance(last.before, last.self)
                      + get_balance(last.before, last.category)

\* a transfer of the whole balance to the other category has succeeded
C13_Witness ==
  /\ last # None /\ last.op = "transfer" /\ last.ret = "True"
  /\ last.category # last.self
  /\ last.amount > 0
  /\ last.amount = get_balance(last.before, last.self)

\* what the claim says add_time returns, from the meaning of the arguments:
\* h:mm AM is (h mod 12) * 60 + mm minutes after midnight, h:mm PM is 720
\* minutes later
StartHour == int(split(split(at_args.start_time, " ")[1], ":")[1])

StartMinute == int(split(split(at_args.start_time, " ")[1], ":")[2])

StartIsPM == split(at_args.start_time, " ")[2] = << "P", "M" >>

MinutesSinceMidnight ==
  (StartHour % 12) * 60 + StartMinute + (IF StartIsPM THEN 720 ELSE 0)

DurationInMinutes ==
  int(split(at_args.duration, ":")[1]) * 60 + int(split(at_args.duration, ":")[2])

ExpectedTime ==
  LET total == MinutesSinceMidnight + DurationInMinutes
      clock == total % 1440
      n == total \div 1440
      h24 == clock \div 60
      h12 == IF h24 % 12 = 0 THEN 12 ELSE h24 % 12
      rendering == str(h12) \o ":" \o str02d(clock % 60) \o " "
                     \o (IF h24 < 12 THEN "AM" ELSE "PM")
  IN  rendering \o (IF n = 0 THEN ""
                    ELSE IF n = 1 THEN " (next day)"
                    ELSE " (" \o str(n) \o " days later)")

\* C14: for every start time 'h:mm AM|PM' with h in 1..12 and every
\* duration 'H:MM', add_time returns the 12-hour rendering of (start minutes
\* since midnight + duration minutes) mod 1440, with no suffix, '(next day)'
\* or '(n days later)' for the n midnights crossed.
C14_AddTimeCorrect ==
  at_result # "" => at_result = ExpectedTime

(***************************************************************************)
(* Paths of a graph, defined without shortest_path: the walks from a node  *)
(* along at most k edges, as sequences of nodes.  With weights >= 0 a walk *)
(* of least weight to a node needs no node twice, so the walks of at most  *)
(* |keys| - 1 edges contain one.                                           *)
(***************************************************************************)
EdgeWeights(g, u, v) ==
  { g.adj[u][i][2] : i \in { i \in 1 .. Len(g.adj[u]) : g.adj[u][i][1] = v } }

Least(S) == CHOOSE x \in S : \A y \in S : x <= y

IsWalk(g, w) ==
  /\ w # << >>
  /\ \A i \in 1 .. Len(w) : w[i] \in DOMAIN g.adj
  /\ \A i \in 1 .. Len(w) - 1 : EdgeWeights(g, w[i], w[i + 1]) # {}

RECURSIVE WalkWeight(_, _)
WalkWeight(g, w) ==
  IF Len(w) <= 1 THEN 0
  ELSE WalkWeight(g, SubSeq(w, 1, Len(w) - 1))
         + Least(EdgeWeights(g, w[Len(w) - 1], w[Len(w)]))

RECURSIVE Walks(_, _, _)
Walks(g, from, k) ==
  IF k = 0 THEN { << from >> }
  ELSE LET shorter == Walks(g, from, k - 1)
       IN  shorter \cup
             { Append(x[1], x[2]) :
                 x \in { x \in shorter \X DOMAIN g.adj :
                           EdgeWeights(g, x[1][Len(x[1])], x[2]) # {} } }

\* the least total weight of a path from start to node, inf if there is none
MinDistance(g, start, node) ==
  LET ws == { w \in Walks(g, start, Len(g.keys) - 1) : w[Len(w)] = node }
  IN  IF ws = {} THEN inf ELSE Least({ WalkWeight(g, w) : w \in ws })

RowMajorLeq(p, q) == p[1] < q[1] \/ (p[1] = q[1] /\ p[2] <= q[2])

\* C16: on every grid of a run, find_empty_cell() returns None if and only
\* if no cell is empty, and otherwise an empty cell that no empty cell
\* precedes in row-major order; the step of solver() that calls it (lines
\* 80-82) leaves the grid as it is, returns True on None and otherwise keeps
\* the returned cell as the invocation's cell.
C16_FirstEmptyCell ==
  /\ [](LET next_empty == find_empty_cell(board)
        IN  /\ next_empty = None <=> EmptyCells(board) = {}
            /\ next_empty # None =>
                 /\ next_empty \in EmptyCells(board)
                 /\ \A q \in EmptyCells(board) : RowMajorLeq(next_empty, q))
  /\ [][(phase = "running" /\ Top.pc = "enter") =>
          /\ board' = board
          /\ IF find_empty_cell(board) = None
               THEN /\ stack' = Pop
                    /\ ret' = "True" \/ result' = "True"
               ELSE /\ Len(stack') = Len(stack)
                    /\ stack'[Len(stack)].pc = "loop"
                    /\ stack'[Len(stack)].cell = find_empty_cell(board)]_vars

\* an invocation has just found (0,7), the first of three empty cells, two
\* of them in row 0
C16_Witness ==
  /\ phase = "running"
  /\ Top.pc = "loop"
  /\ Top.guess = 1
  /\ Top.cell = <<0, 7>>
  /\ EmptyCells(board) = { <<0, 7>>, <<0, 8>>, <<2, 0>> }

\* the grid without any digit
Blank == [r \in Idx |-> [c \in Idx |-> 0]]

\* the cells valid_in_square(row, col, .) looks at: those where a digit
\* makes it answer False
Window(cell) ==
  { q \in Cells : ~ valid_in_square(SetCell(Blank, q, 1), cell[1], cell[2], 1) }

Windows == { Window(cell) : cell \in Cells }

\* the block windows are the nine blocks of the claim, pairwise disjoint,
\* and cover the 81 cells
WindowsPartition ==
  /\ \A cell \in Cells : Window(cell) = BlockCells(cell)
  /\ \A cell \in Cells : Cardinality(Window(cell)) = BlockSize * BlockSize
  /\ Cardinality(Windows) = 9
  /\ \A v \in Windows : \A w \in Windows : v # w => v \cap w = {}
  /\ UNION Windows = Cells
  /\ Cardinality(Cells) = 81

\* C17: on every grid of a run, for every cell and every digit, is_valid is
\* true if and only if the digit occurs nowhere in the cell's row, nowhere
\* in its column and nowhere in the block whose origin is
\* (row - row mod 3, col - col mod 3); the nine block windows are pairwise
\* disjoint and cover the 81 cells.
C17_IsValidIffAbsent ==
  /\ WindowsPartition
  /\ \A cell \in Cells : \A num \in Digits :
       is_valid(board, cell, num) <=>
         /\ \A q \in RowCells(cell[1]) : At(board, q) # num
         /\ \A q \in ColCells(cell[2]) : At(board, q) # num
         /\ \A q \in BlockCells(cell) : At(board, q) # num

\* the invocation for cell (0,0) has tested 5 and gone on to 6: neither
\* row 0 nor column 0 holds 5, the block does
C17_Witness ==
  /\ phase = "running"
  /\ Top.pc = "loop"
  /\ Top.cell = <<0, 0>>
  /\ Top.guess = 6
  /\ valid_in_row(board, 0, 5)
  /\ valid_in_col(board, 0, 5)
  /\ ~ is_valid(board, <<0, 0>>, 5)

\* the grid b after the writes <<row, col, value>> of a list, in order
RECURSIVE Replay(_, _)
Replay(b, writes) ==
  IF writes = << >> THEN b
  ELSE Replay(SetCell(b, <<writes[1][1], writes[1][2]>>, writes[1][3]),
              Tail(writes))

\* the grid at the moment the invocation of frame f was entered: the grid
\* of the top-level call after the writes made before f
GridAtEntry(f) == Replay(entry, SubSeq(trace, 1, f.mark))

\* the innermost invocation returns False in this step
ReturnsFalse ==
  /\ phase = "running"
  /\ stack' = Pop
  /\ ret' = "False" \/ (phase' = "done" /\ result' = "False")

\* a candidate is about to be tested with is_valid
TestsCandidate == phase = "running" /\ Top.pc = "loop" /\ Top.guess <= MaxDigit

\* C18: whenever an invocation of solver(), nested or top-level, returns
\* False, the grid equals the grid at the moment that invocation was
\* entered; and each time a candidate is tested for a frame's cell, that
\* cell is empty and so is every later cell (row-major) that was empty in
\* the input.
C18_RollbackEveryLevel ==
  [][/\ ReturnsFalse => board' = GridAtEntry(Top)
     /\ TestsCandidate =>
          /\ At(board, Top.cell) = 0
          /\ board = GridAtEntry(Top)
          /\ \A q \in EmptyCells(entry) :
               RowMajorLeq(Top.cell, q) => At(board, q) = 0]_vars

\* a nested invocation at level 2 or deeper has just returned False, after
\* an earlier rollback
C18_Witness ==
  /\ phase = "running"
  /\ ret = "False"
  /\ Len(stack) >= 2
  /\ Cardinality(Rollbacks) >= 1
  /\ board = Replay(entry, trace)

\* some invocation of the running call has returned True
Succeeded == phase = "running" /\ ret = "True"

\* C19: once an invocation of solver() has returned True the grid is full;
\* from then on no candidate is tested, no cell is written or reset and no
\* nested call is made: every step is the return of True by the enclosing
\* invocation, up to the top-level call, whose grid is the grid of the base
\* case (the last write of the call is an assignment, not a reset).
C19_ShortCircuit ==
  /\ [][Succeeded =>
          /\ EmptyCells(board) = {}
          /\ stack' = Pop
          /\ ret' = "True" \/ (phase' = "done" /\ result' = "True")
          /\ board' = board
          /\ trace' = trace
          /\ checks' = checks
          /\ calls' = calls]_vars
  /\ []((phase = "done" /\ result = "True") =>
          /\ board = Replay(entry, trace)
          /\ EmptyCells(board) = {}
          /\ trace # << >> => trace[Len(trace)][3] # 0)

\* the base case has returned True with two enclosing invocations still to
\* return, after a candidate was rolled back earlier in the search
C19_Witness ==
  /\ Succeeded
  /\ Len(stack) >= 2
  /\ Cardinality(Rollbacks) >= 1
  /\ checks >= 10

\* grid a comes before grid c, or is c, when the digits of the cells of a
\* set are read in row-major order
LexLeq(a, c, cells) ==
  \/ \A q \in cells : At(a, q) = At(c, q)
  \/ \E q \in cells :
       /\ At(a, q) < At(c, q)
       /\ \A r \in cells : (r # q /\ RowMajorLeq(r, q)) => At(a, r) = At(c, r)

\* C20: when solver() returns True on a grid without duplicate, the grid
\* left is the completion that is lexicographically smallest, the digits of
\* the originally empty cells being read in row-major order.
C20_SmallestCompletion ==
  (phase = "done" /\ result = "True" /\ NoDuplicate(entry)) =>
    /\ board \in Completions(entry)
    /\ \A c \in Completions(entry) : LexLeq(board, c, EmptyCells(entry))

\* a successful call on a grid with two completions: the one returned has
\* 4 in cell (0,0), the other one 9
C20_Witness ==
  /\ phase = "done" /\ result = "True" /\ NoDuplicate(entry)
  /\ Cardinality(Completions(entry)) >= 2
  /\ At(entry, <<0, 0>>) = 0
  /\ At(board, <<0, 0>>) = 4
  /\ \E c \in Completions(entry) : At(c, <<0, 0>>) = 9

\* the originally empty cells that hold a digit
Filled == { q \in EmptyCells(entry) : At(board, q) # 0 }

\* F is a prefix of E in row-major order
IsRowMajorPrefix(F, E) ==
  /\ F \subseteq E
  /\ \A q \in F : \A p \in E : RowMajorLeq(p, q) => p \in F

\* the cells whose value the step changes
Changed == { q \in Cells : At(board', q) # At(board, q) }

\* a step of a running call writes (the history grows) exactly when it
\* changes the grid, and then it changes one cell, from empty to a digit or
\* from a digit to empty
WritesToggle ==
  phase = "running" =>
    /\ trace' # trace <=> board' # board
    /\ board' # board =>
         /\ Cardinality(Changed) = 1
         /\ \A q \in Changed :
              \/ At(board, q) = 0 /\ At(board', q) \in Digits
              \/ At(board, q) \in Digits /\ At(board', q) = 0

\* C21 as stated: in every state of a running call the filled originally
\* empty cells are a row-major prefix of the input's empty cells and their
\* number is the recursion depth give or take one, and every write toggles
\* one cell between empty and a digit.
C21_DepthWithinOne ==
  /\ [](phase = "running" =>
          /\ IsRowMajorPrefix(Filled, EmptyCells(entry))
          /\ Cardinality(Filled) \in (Depth - 1) .. (Depth + 1))
  /\ [][WritesToggle]_vars

\* C21 amended: in every state of a running call the filled originally
\* empty cells are a row-major prefix of the input's empty cells; until an
\* invocation has returned True their number is the recursion depth, plus
\* one while the innermost invocation is about to roll its cell back; once
\* an invocation has returned True all of them are filled while the depth
\* goes down to 0; and every write toggles one cell between empty and a
\* digit.
C21_SearchStackShape ==
  /\ [](phase = "running" =>
          /\ IsRowMajorPrefix(Filled, EmptyCells(entry))
          /\ IF ret = "True"
               THEN /\ Filled = EmptyCells(entry)
                    /\ Depth < Cardinality(Filled)
               ELSE IF Top.pc = "wait"
                 THEN ret = "False" /\ Cardinality(Filled) = Depth + 1
                 ELSE Cardinality(Filled) = Depth)
  /\ [][WritesToggle]_vars

\* the search has succeeded after a rollback and the outermost invocation
\* is about to return True: three cells or more are filled at depth 0
C21_Witness ==
  /\ phase = "running"
  /\ ret = "True"
  /\ Depth = 0
  /\ Cardinality(Filled) >= 3
  /\ Cardinality(Rollbacks) >= 1

=============================================================================
